---- MODULE Spec2Model ----
(***************************************************************************)
(* Model of the PharmaChaincode contract of src/main.go (package           *)
(* contracts): AddMedicine, DeleteMedicine, ListMedicines,                 *)
(* ShowMedicineHistory and RequestMedicine over a Fabric ledger: a flat    *)
(* key -> bytes world state and a per-key history log.                     *)
(*                                                                         *)
(* Strings are sequences of byte values, so that fmt.Sprintf builds keys   *)
(* by concatenation and Go's < on strings is the byte-wise lexicographic   *)
(* order.  A JSON document is a record from JSON member names to values;   *)
(* nil bytes are the record Nil.                                           *)
(*                                                                         *)
(* Spec: every action is one transaction that the ledger simulates and     *)
(* commits before the next one starts; the ledger calls themselves         *)
(* (GetState, PutState, ...) succeed.                                      *)
(* SpecIter: ListMedicines and ShowMedicineHistory statement by statement, *)
(* with ledger calls that may fail, in the frame call.                     *)
(* SpecMVCC: operations simulated into the proposals of pending and        *)
(* committed later, in any order, under the ledger's version check.        *)
(***************************************************************************)
EXTENDS Integers, Sequences, FiniteSets, TLC

VARIABLES state, history, txCount, result, addCalled, call, pending

vars == <<state, history, txCount, result, addCalled, call, pending>>

\* Number of transactions the ledger commits in a behaviour.
MaxTx == 3

----------------------------------------------------------------------------
(* String literals, as byte sequences. *)

\* "ProducerMSP"
ProducerMSP == <<80, 114, 111, 100, 117, 99, 101, 114, 77, 83, 80>>
\* "SupplierMSP"
SupplierMSP == <<83, 117, 112, 112, 108, 105, 101, 114, 77, 83, 80>>
\* "ManufacturerMSP": an organization outside the allow-list
ManufacturerMSP == <<77, 97, 110, 117, 102, 97, 99, 116, 117, 114, 101, 114, 77, 83, 80>>

\* allowedOrgs of RequestMedicine: the keys mapped to true
allowedOrgs == {ProducerMSP, SupplierMSP}

\* the MSP identities ctx.GetClientIdentity().GetMSPID() returns
Callers == {ProducerMSP, SupplierMSP, ManufacturerMSP}

\* fmt.Sprintf("request_%s_%s", requester, name)
Sprintf_request(requester, name) ==
    <<114, 101, 113, 117, 101, 115, 116, 95>> \o requester \o <<95>> \o name

\* Names the operations are called with: "B" and a name that has the shape
\* of a request key, "request_SupplierMSP_B".
Names == { <<66>>, Sprintf_request(SupplierMSP, <<66>>) }

\* details strings: "u", "a"
Details == { <<117>>, <<97>> }

Quantities == { 100 }

\* "2023-01-01T00:00:00Z", and "2023-13-01T00:00:00Z" (no such month)
ManufactureDates ==
    { <<50, 48, 50, 51, 45, 48, 49, 45, 48, 49, 84, 48, 48, 58, 48, 48, 58, 48, 48, 90>>,
      <<50, 48, 50, 51, 45, 49, 51, 45, 48, 49, 84, 48, 48, 58, 48, 48, 58, 48, 48, 90>> }

\* "2025-01-01T00:00:00Z", and "2025-01-01" (no time of day)
ExpiryDates ==
    { <<50, 48, 50, 53, 45, 48, 49, 45, 48, 49, 84, 48, 48, 58, 48, 48, 58, 48, 48, 90>>,
      <<50, 48, 50, 53, 45, 48, 49, 45, 48, 49>> }

\* Go's a < b on strings: byte-wise lexicographic order
RECURSIVE StrLess(_, _)
StrLess(a, b) ==
    IF b = <<>> THEN FALSE
    ELSE IF a = <<>> THEN TRUE
    ELSE IF Head(a) < Head(b) THEN TRUE
    ELSE IF Head(a) > Head(b) THEN FALSE
    ELSE StrLess(Tail(a), Tail(b))

----------------------------------------------------------------------------
(* time.Parse(time.RFC3339, s) and the RFC 3339 text of a time.Time, for   *)
(* the profile "YYYY-MM-DDTHH:MM:SSZ" (UTC, no fraction of a second).  A   *)
(* time is <<year, month, day, hour, minute, second>>.                     *)

IsDigit(c) == c \in 48..57

Num2(s, i) == (s[i] - 48) * 10 + (s[i + 1] - 48)

Num4(s, i) == Num2(s, i) * 100 + Num2(s, i + 2)

IsLeap(y) == (y % 4 = 0) /\ ((y % 100 # 0) \/ (y % 400 = 0))

DaysIn(y, m) ==
    IF m = 2 THEN (IF IsLeap(y) THEN 29 ELSE 28)
    ELSE IF m \in {4, 6, 9, 11} THEN 30 ELSE 31

\* the zero time.Time: January 1, year 1, 00:00:00 UTC
ZeroTime == <<1, 1, 1, 0, 0, 0>>

\* time.Parse(time.RFC3339, s): [err, t]
ParseTime(s) ==
    LET shape == /\ Len(s) = 20
                 /\ \A i \in {1, 2, 3, 4, 6, 7, 9, 10, 12, 13, 15, 16, 18, 19} : IsDigit(s[i])
                 /\ s[5] = 45 /\ s[8] = 45 /\ s[11] = 84
                 /\ s[14] = 58 /\ s[17] = 58 /\ s[20] = 90
    IN  IF ~shape THEN [err |-> TRUE, t |-> ZeroTime]
        ELSE LET y  == Num4(s, 1)
                 mo == Num2(s, 6)
                 d  == Num2(s, 9)
                 h  == Num2(s, 12)
                 mi == Num2(s, 15)
                 se == Num2(s, 18)
             IN  IF /\ mo \in 1..12
                    /\ d \in 1..DaysIn(y, mo)
                    /\ h < 24 /\ mi < 60 /\ se < 60
                 THEN [err |-> FALSE, t |-> <<y, mo, d, h, mi, se>>]
                 ELSE [err |-> TRUE, t |-> ZeroTime]

Fmt2(n) == <<48 + (n \div 10), 48 + (n % 10)>>

\* Time.MarshalJSON: the RFC 3339 text of t
FormatTime(t) ==
    Fmt2(t[1] \div 100) \o Fmt2(t[1] % 100) \o <<45>> \o Fmt2(t[2]) \o <<45>>
        \o Fmt2(t[3]) \o <<84>> \o Fmt2(t[4]) \o <<58>> \o Fmt2(t[5]) \o <<58>>
        \o Fmt2(t[6]) \o <<90>>

----------------------------------------------------------------------------
(* The structs and their JSON encodings. *)

\* nil bytes: what GetState returns for an absent key, and the Value of a
\* history entry that records a deletion
Nil == [nil |-> TRUE]

\* type Medicine struct
Medicine(name, quantity, manufactureTime, expiryTime, owner) ==
    [Name |-> name, Quantity |-> quantity, ManufactureDate |-> manufactureTime,
     ExpiryDate |-> expiryTime, Owner |-> owner]

\* the zero value of Medicine (var medicine Medicine)
ZeroMedicine == Medicine(<<>>, 0, ZeroTime, ZeroTime, <<>>)

\* json.Marshal(medicine): members named by the struct's json tags
MarshalMedicine(m) ==
    [name |-> m.Name, quantity |-> m.Quantity,
     manufactureDate |-> FormatTime(m.ManufactureDate),
     expiryDate |-> FormatTime(m.ExpiryDate), owner |-> m.Owner]

\* type MedicineRequest struct
MedicineRequest(medicineName, requester, details) ==
    [MedicineName |-> medicineName, Requester |-> requester, Details |-> details]

\* json.Marshal(request)
MarshalRequest(r) ==
    [medicineName |-> r.MedicineName, requester |-> r.Requester, details |-> r.Details]

\* json.Unmarshal(bytes, &medicine) into a zero Medicine: an error on nil
\* (empty) input; otherwise each member that names a Medicine field sets it,
\* members that name no field are ignored and fields without a member keep
\* their zero value.  [err, val]
UnmarshalMedicine(bytes) ==
    IF bytes = Nil THEN [err |-> TRUE, val |-> ZeroMedicine]
    ELSE LET has(f) == f \in DOMAIN bytes
             mt == IF has("manufactureDate") THEN ParseTime(bytes.manufactureDate)
                   ELSE [err |-> FALSE, t |-> ZeroTime]
             et == IF has("expiryDate") THEN ParseTime(bytes.expiryDate)
                   ELSE [err |-> FALSE, t |-> ZeroTime]
         IN  IF mt.err \/ et.err THEN [err |-> TRUE, val |-> ZeroMedicine]
             ELSE [err |-> FALSE,
                   val |-> Medicine(IF has("name") THEN bytes.name ELSE <<>>,
                                    IF has("quantity") THEN bytes.quantity ELSE 0,
                                    mt.t, et.t,
                                    IF has("owner") THEN bytes.owner ELSE <<>>)]

----------------------------------------------------------------------------
(* The ledger stub. *)

\* The world state is a map from the present keys to their bytes, and the
\* history a map from the keys ever written to their entries.
Lookup(m, key, default) == IF key \in DOMAIN m THEN m[key] ELSE default

Store(m, key, value) ==
    [k \in DOMAIN m \cup {key} |-> IF k = key THEN value ELSE m[k]]

Remove(m, key) == [k \in DOMAIN m \ {key} |-> m[k]]

\* ctx.GetStub().GetState(key): nil for an absent key
GetState(key) == Lookup(state, key, Nil)

\* ctx.GetStub().GetHistoryForKey(key): the entries of the key, oldest first
GetHistoryForKey(key) == Lookup(history, key, <<>>)

\* the ledger's record of a committed write of value (nil: a delete) to key
Logged(key, value) ==
    Store(history, key,
          Append(GetHistoryForKey(key),
                 [TxId |-> txCount + 1, Value |-> value, Timestamp |-> txCount + 1]))

\* ctx.GetStub().PutState(key, value), committed: the world state holds value
\* under key and the key's history gains one entry
PutState(key, value) ==
    /\ txCount < MaxTx
    /\ txCount' = txCount + 1
    /\ state' = Store(state, key, value)
    /\ history' = Logged(key, value)

\* ctx.GetStub().DelState(key), committed: the key is absent and its history
\* gains an entry without a value
DelState(key) ==
    /\ txCount < MaxTx
    /\ txCount' = txCount + 1
    /\ state' = Remove(state, key)
    /\ history' = Logged(key, Nil)

\* the keys of a set in ascending order
RECURSIVE InKeyOrder(_)
InKeyOrder(S) ==
    IF S = {} THEN <<>>
    ELSE LET k == CHOOSE x \in S : \A y \in S : ~StrLess(y, x)
         IN  <<k>> \o InKeyOrder(S \ {k})

\* ctx.GetStub().GetStateByRange("", ""): the values of all present keys, in
\* key order
GetStateByRange ==
    LET ks == InKeyOrder(DOMAIN state)
    IN  [i \in 1..Len(ks) |-> state[ks[i]]]

----------------------------------------------------------------------------
(* What an operation returned: the operation, the caller identity it read   *)
(* (<<>> when it reads none), its name argument, the error ("" for nil) and *)
(* the returned slices.                                                     *)

Returned(op, caller, name, err, medicines, hist) ==
    [op |-> op, caller |-> caller, name |-> name, err |-> err,
     medicines |-> medicines, history |-> hist]

\* an operation that returns an error changes nothing on the ledger
Fail(op, caller, name, err) ==
    /\ result' = Returned(op, caller, name, err, <<>>, <<>>)
    /\ UNCHANGED <<state, history, txCount>>

----------------------------------------------------------------------------
(* A call of ListMedicines or ShowMedicineHistory taken statement by        *)
(* statement: the frame holds the call's position, the values its iterator  *)
(* has still to deliver, how many iterators the call acquired and how many  *)
(* Close calls it made, its slices and its error.                           *)

Frame(op, name, pc, iter, acquired, closed, medicines, hist, err) ==
    [op |-> op, name |-> name, pc |-> pc, iter |-> iter, acquired |-> acquired,
     closed |-> closed, medicines |-> medicines, history |-> hist, err |-> err]

\* no call is running
NoCall == Frame("none", <<>>, "done", <<>>, 0, 0, <<>>, <<>>, "")

Init ==
    /\ state = [k \in {} |-> Nil]
    /\ history = [k \in {} |-> <<>>]
    /\ txCount = 0
    /\ result = Returned("none", <<>>, <<>>, "", <<>>, <<>>)
    /\ addCalled = {}
    /\ call = NoCall
    /\ pending = {}

\* AddMedicine without the check of lines 66-72: the record is written
\* whether or not the key is present
AddMedicine_NoExistenceCheck(caller, name, quantity, manufactureDate, expiryDate) ==
    LET manufactureTime == ParseTime(manufactureDate)
        expiryTime == ParseTime(expiryDate)
        medicine == Medicine(name, quantity, manufactureTime.t, expiryTime.t, caller)
    IN  /\ addCalled' = addCalled \cup {name}
        /\ UNCHANGED <<call, pending>>
        /\ IF manufactureTime.err
           THEN Fail("AddMedicine", caller, name, "ValidationError: manufacture date")
           ELSE IF expiryTime.err
           THEN Fail("AddMedicine", caller, name, "ValidationError: expiry date")
           ELSE /\ PutState(name, MarshalMedicine(medicine))
                /\ result' = Returned("AddMedicine", caller, name, "", <<>>, <<>>)

\* AddMedicine that refuses a name that was ever written: the existence check
\* made on the key's history instead of the world state
AddMedicine_RetiresNames(caller, name, quantity, manufactureDate, expiryDate) ==
    LET manufactureTime == ParseTime(manufactureDate)
        expiryTime == ParseTime(expiryDate)
        medicine == Medicine(name, quantity, manufactureTime.t, expiryTime.t, caller)
    IN  /\ addCalled' = addCalled \cup {name}
        /\ UNCHANGED <<call, pending>>
        /\ IF GetHistoryForKey(name) # <<>>
           THEN Fail("AddMedicine", caller, name, "AlreadyExists")
           ELSE IF manufactureTime.err
           THEN Fail("AddMedicine", caller, name, "ValidationError: manufacture date")
           ELSE IF expiryTime.err
           THEN Fail("AddMedicine", caller, name, "ValidationError: expiry date")
           ELSE /\ PutState(name, MarshalMedicine(medicine))
                /\ result' = Returned("AddMedicine", caller, name, "", <<>>, <<>>)

\* AddMedicine with the two date checks in the other order: expiry date
\* (lines 80-83) before manufacture date (lines 75-78)
AddMedicine_ExpiryFirst(caller, name, quantity, manufactureDate, expiryDate) ==
    LET manufactureTime == ParseTime(manufactureDate)
        expiryTime == ParseTime(expiryDate)
        medicine == Medicine(name, quantity, manufactureTime.t, expiryTime.t, caller)
    IN  /\ addCalled' = addCalled \cup {name}
        /\ UNCHANGED <<call, pending>>
        /\ IF GetState(name) # Nil
           THEN Fail("AddMedicine", caller, name, "AlreadyExists")
           ELSE IF expiryTime.err
           THEN Fail("AddMedicine", caller, name, "ValidationError: expiry date")
           ELSE IF manufactureTime.err
           THEN Fail("AddMedicine", caller, name, "ValidationError: manufacture date")
           ELSE /\ PutState(name, MarshalMedicine(medicine))
                /\ result' = Returned("AddMedicine", caller, name, "", <<>>, <<>>)

\* AddMedicine that writes the record before it validates the dates: PutState
\* (line 107) moved above the parse checks of lines 75-83
AddMedicine_WriteBeforeValidate(caller, name, quantity, manufactureDate, expiryDate) ==
    LET manufactureTime == ParseTime(manufactureDate)
        expiryTime == ParseTime(expiryDate)
        medicine == Medicine(name, quantity, manufactureTime.t, expiryTime.t, caller)
    IN  /\ addCalled' = addCalled \cup {name}
        /\ UNCHANGED <<call, pending>>
        /\ IF GetState(name) # Nil
           THEN Fail("AddMedicine", caller, name, "AlreadyExists")
           ELSE /\ PutState(name, MarshalMedicine(medicine))
                /\ result' = Returned("AddMedicine", caller, name,
                                      IF manufactureTime.err
                                      THEN "ValidationError: manufacture date"
                                      ELSE IF expiryTime.err
                                      THEN "ValidationError: expiry date"
                                      ELSE "",
                                      <<>>, <<>>)

\* func (c *PharmaChaincode) AddMedicine
AddMedicine(caller, name, quantity, manufactureDate, expiryDate) ==
    LET existingMedicine == GetState(name)
        manufactureTime == ParseTime(manufactureDate)
        expiryTime == ParseTime(expiryDate)
        owner == caller
        medicine == Medicine(name, quantity, manufactureTime.t, expiryTime.t, owner)
    IN  /\ addCalled' = addCalled \cup {name}
        /\ UNCHANGED <<call, pending>>
        /\ IF existingMedicine # Nil
           THEN Fail("AddMedicine", caller, name, "AlreadyExists")
           ELSE IF manufactureTime.err
           THEN Fail("AddMedicine", caller, name, "ValidationError: manufacture date")
           ELSE IF expiryTime.err
           THEN Fail("AddMedicine", caller, name, "ValidationError: expiry date")
           ELSE /\ PutState(name, MarshalMedicine(medicine))
                /\ result' = Returned("AddMedicine", caller, name, "", <<>>, <<>>)

\* DeleteMedicine that marks the record deleted by overwriting it with an
\* empty Medicine instead of calling DelState (line 126)
DeleteMedicine_SoftDelete(caller, name) ==
    /\ UNCHANGED <<addCalled, call, pending>>
    /\ IF GetState(name) = Nil
       THEN Fail("DeleteMedicine", <<>>, name, "NotFound")
       ELSE /\ PutState(name, MarshalMedicine(ZeroMedicine))
            /\ result' = Returned("DeleteMedicine", <<>>, name, "", <<>>, <<>>)

\* DeleteMedicine that lets only the owner of the record delete it
DeleteMedicine_OwnerOnly(caller, name) ==
    /\ UNCHANGED <<addCalled, call, pending>>
    /\ IF GetState(name) = Nil
       THEN Fail("DeleteMedicine", <<>>, name, "NotFound")
       ELSE IF UnmarshalMedicine(GetState(name)).val.Owner # caller
       THEN Fail("DeleteMedicine", <<>>, name, "Unauthorized")
       ELSE /\ DelState(name)
            /\ result' = Returned("DeleteMedicine", <<>>, name, "", <<>>, <<>>)

\* func (c *PharmaChaincode) DeleteMedicine
DeleteMedicine(caller, name) ==
    LET existingMedicine == GetState(name)
    IN  /\ UNCHANGED <<addCalled, call, pending>>
        /\ IF existingMedicine = Nil
           THEN Fail("DeleteMedicine", <<>>, name, "NotFound")
           ELSE /\ DelState(name)
                /\ result' = Returned("DeleteMedicine", <<>>, name, "", <<>>, <<>>)

\* the loop of ListMedicines over the range iterator: decode each value and
\* append it; a value that does not decode ends the operation with an error
RECURSIVE ListLoop(_, _)
ListLoop(values, medicines) ==
    IF values = <<>> THEN [err |-> FALSE, medicines |-> medicines]
    ELSE LET medicine == UnmarshalMedicine(Head(values))
         IN  IF medicine.err THEN [err |-> TRUE, medicines |-> <<>>]
             ELSE ListLoop(Tail(values), Append(medicines, medicine.val))

\* insert m into a slice ordered by Name, after the entries that are not
\* greater than it
RECURSIVE InsertByName(_, _)
InsertByName(m, sorted) ==
    IF sorted = <<>> THEN <<m>>
    ELSE IF StrLess(m.Name, Head(sorted).Name) THEN <<m>> \o sorted
    ELSE <<Head(sorted)>> \o InsertByName(m, Tail(sorted))

\* ListMedicines without the sort of lines 160-162
SortByName_Unsorted(medicines) == medicines

\* sort.Slice(medicines, func(i, j) bool { medicines[i].Name < medicines[j].Name })
RECURSIVE SortByName(_)
SortByName(medicines) ==
    IF medicines = <<>> THEN <<>>
    ELSE InsertByName(Head(medicines), SortByName(Tail(medicines)))

\* func (c *PharmaChaincode) ListMedicines
ListMedicines ==
    LET loop == ListLoop(GetStateByRange, <<>>)
    IN  /\ UNCHANGED <<addCalled, call, pending>>
        /\ IF loop.err
           THEN Fail("ListMedicines", <<>>, <<>>, "InfrastructureError")
           ELSE /\ result' = Returned("ListMedicines", <<>>, <<>>, "",
                                      SortByName(loop.medicines), <<>>)
                /\ UNCHANGED <<state, history, txCount>>

\* the loop of ShowMedicineHistory over the history iterator: decode each
\* entry's Value and append a MedicineHistory; a Value that does not decode
\* ends the operation with an error
RECURSIVE HistoryLoop(_, _)
HistoryLoop(entries, medicineHistory) ==
    IF entries = <<>> THEN [err |-> FALSE, history |-> medicineHistory]
    ELSE LET txValue == UnmarshalMedicine(Head(entries).Value)
         IN  IF txValue.err THEN [err |-> TRUE, history |-> <<>>]
             ELSE HistoryLoop(Tail(entries),
                              Append(medicineHistory,
                                     [TxID |-> Head(entries).TxId,
                                      Value |-> txValue.val,
                                      Timestamp |-> Head(entries).Timestamp]))

\* ShowMedicineHistory that first requires the record to exist, as
\* DeleteMedicine and RequestMedicine do
ShowMedicineHistory_RequiresRecord(name) ==
    LET loop == HistoryLoop(GetHistoryForKey(name), <<>>)
    IN  /\ UNCHANGED <<addCalled, call, pending>>
        /\ IF GetState(name) = Nil
           THEN Fail("ShowMedicineHistory", <<>>, name, "NotFound")
           ELSE IF loop.err
           THEN Fail("ShowMedicineHistory", <<>>, name, "InfrastructureError")
           ELSE /\ result' = Returned("ShowMedicineHistory", <<>>, name, "",
                                      <<>>, loop.history)
                /\ UNCHANGED <<state, history, txCount>>

\* func (c *PharmaChaincode) ShowMedicineHistory
ShowMedicineHistory(name) ==
    LET loop == HistoryLoop(GetHistoryForKey(name), <<>>)
    IN  /\ UNCHANGED <<addCalled, call, pending>>
        /\ IF loop.err
           THEN Fail("ShowMedicineHistory", <<>>, name, "InfrastructureError")
           ELSE /\ result' = Returned("ShowMedicineHistory", <<>>, name, "",
                                      <<>>, loop.history)
                /\ UNCHANGED <<state, history, txCount>>

\* RequestMedicine without the allow-list check of lines 225-227
RequestMedicine_NoAllowList(caller, name, details) ==
    LET requestKey == Sprintf_request(caller, name)
    IN  /\ UNCHANGED <<addCalled, call, pending>>
        /\ IF GetState(name) = Nil
           THEN Fail("RequestMedicine", caller, name, "NotFound")
           ELSE IF GetState(requestKey) # Nil
           THEN Fail("RequestMedicine", caller, name, "AlreadyExists")
           ELSE /\ PutState(requestKey,
                            MarshalRequest(MedicineRequest(name, caller, details)))
                /\ result' = Returned("RequestMedicine", caller, name, "", <<>>, <<>>)

\* RequestMedicine with the request written under name instead of requestKey
\* (line 256)
RequestMedicine_WritesUnderName(caller, name, details) ==
    LET requestKey == Sprintf_request(caller, name)
    IN  /\ UNCHANGED <<addCalled, call, pending>>
        /\ IF GetState(name) = Nil
           THEN Fail("RequestMedicine", caller, name, "NotFound")
           ELSE IF caller \notin allowedOrgs
           THEN Fail("RequestMedicine", caller, name, "Unauthorized")
           ELSE IF GetState(requestKey) # Nil
           THEN Fail("RequestMedicine", caller, name, "AlreadyExists")
           ELSE /\ PutState(name, MarshalRequest(MedicineRequest(name, caller, details)))
                /\ result' = Returned("RequestMedicine", caller, name, "", <<>>, <<>>)

\* func (c *PharmaChaincode) RequestMedicine
RequestMedicine(caller, name, details) ==
    LET existingMedicine == GetState(name)
        requester == caller
        requestKey == Sprintf_request(requester, name)
        request == MedicineRequest(name, requester, details)
    IN  /\ UNCHANGED <<addCalled, call, pending>>
        /\ IF existingMedicine = Nil
           THEN Fail("RequestMedicine", caller, name, "NotFound")
           ELSE IF requester \notin allowedOrgs
           THEN Fail("RequestMedicine", caller, name, "Unauthorized")
           ELSE IF GetState(requestKey) # Nil
           THEN Fail("RequestMedicine", caller, name, "AlreadyExists")
           ELSE /\ PutState(requestKey, MarshalRequest(request))
                /\ result' = Returned("RequestMedicine", caller, name, "", <<>>, <<>>)

Next ==
    \/ \E c \in Callers, n \in Names, q \in Quantities,
          md \in ManufactureDates, ed \in ExpiryDates : AddMedicine(c, n, q, md, ed)
    \/ \E c \in Callers, n \in Names : DeleteMedicine(c, n)
    \/ ListMedicines
    \/ \E n \in Names : ShowMedicineHistory(n)
    \/ \E c \in Callers, n \in Names, d \in Details : RequestMedicine(c, n, d)

Spec == Init /\ [][Next]_vars

----------------------------------------------------------------------------
(* ListMedicines and ShowMedicineHistory statement by statement, over a     *)
(* ledger that earlier transactions have written.  Here the ledger calls    *)
(* may fail: GetStateByRange, GetHistoryForKey and the iterator's Next      *)
(* each either deliver or return an error.                                  *)

\* bytes under key that json.Unmarshal rejects: the manufactureDate member is
\* no RFC 3339 time
CorruptBytes(key) ==
    [name |-> key, quantity |-> 100,
     manufactureDate |-> CHOOSE d \in ManufactureDates : ParseTime(d).err,
     expiryDate |-> CHOOSE d \in ExpiryDates : ~ParseTime(d).err,
     owner |-> ProducerMSP]

\* what a committed transaction may have left under key: a Medicine, a
\* request, bytes that do not decode, or nothing (a delete)
WrittenValues(key) ==
    { MarshalMedicine(Medicine(key, 100,
                               ParseTime(CHOOSE d \in ManufactureDates : ~ParseTime(d).err).t,
                               ParseTime(CHOOSE d \in ExpiryDates : ~ParseTime(d).err).t,
                               ProducerMSP)),
      MarshalRequest(MedicineRequest(key, SupplierMSP, <<117>>)),
      CorruptBytes(key),
      Nil }

\* the ledger l after one more committed write of value (nil: a delete) to key
Committed(l, key, value) ==
    [state |-> IF value = Nil THEN Remove(l.state, key) ELSE Store(l.state, key, value),
     history |-> Store(l.history, key,
                       Append(Lookup(l.history, key, <<>>),
                              [TxId |-> l.txCount + 1, Value |-> value,
                               Timestamp |-> l.txCount + 1])),
     txCount |-> l.txCount + 1]

\* the ledgers that at most n committed writes leave; a delete is of a
\* present key
RECURSIVE Ledgers(_)
Ledgers(n) ==
    IF n = 0
    THEN { [state |-> [k \in {} |-> Nil], history |-> [k \in {} |-> <<>>], txCount |-> 0] }
    ELSE LET before == Ledgers(n - 1)
         IN  before \cup
             { Committed(l, k, v) :
                 <<l, k, v>> \in
                     { x \in before \X Names \X UNION { WrittenValues(k) : k \in Names } :
                         /\ x[1].txCount = n - 1
                         /\ x[3] \in WrittenValues(x[2])
                         /\ x[3] = Nil => x[2] \in DOMAIN x[1].state } }

InitIter ==
    /\ \E l \in Ledgers(MaxTx) :
           /\ state = l.state
           /\ history = l.history
           /\ txCount = l.txCount
    /\ result = Returned("none", <<>>, <<>>, "", <<>>, <<>>)
    /\ addCalled = {}
    /\ call = NoCall
    /\ pending = {}

\* lines 136-140: the range scan is opened and its Close deferred, or the
\* ledger call fails and the operation returns at once
ListMedicines_GetStateByRange ==
    /\ call.pc = "done"
    /\ \/ call' = Frame("ListMedicines", <<>>, "done", <<>>, 0, 0, <<>>, <<>>,
                        "InfrastructureError: get state by range")
       \/ call' = Frame("ListMedicines", <<>>, "loop", GetStateByRange, 1, 0,
                        <<>>, <<>>, "")
    /\ UNCHANGED <<state, history, txCount, result, addCalled, pending>>

\* ListMedicines whose loop skips a value that does not decode and goes on
\* with the next one
ListMedicines_Loop_SkipsBadRecord ==
    /\ call.op = "ListMedicines" /\ call.pc = "loop" /\ call.iter # <<>>
    /\ \/ call' = [call EXCEPT !.pc = "deferred", !.medicines = <<>>,
                               !.err = "InfrastructureError: iterate"]
       \/ LET medicine == UnmarshalMedicine(Head(call.iter))
          IN  IF medicine.err
              THEN call' = [call EXCEPT !.iter = Tail(@)]
              ELSE call' = [call EXCEPT !.iter = Tail(@),
                                        !.medicines = Append(@, medicine.val)]
    /\ UNCHANGED <<state, history, txCount, result, addCalled, pending>>

\* lines 144-157: one pass of the loop.  Next fails, or the value does not
\* decode, and the operation returns nil and the error; or the Medicine is
\* appended
ListMedicines_Loop ==
    /\ call.op = "ListMedicines" /\ call.pc = "loop" /\ call.iter # <<>>
    /\ \/ call' = [call EXCEPT !.pc = "deferred", !.medicines = <<>>,
                               !.err = "InfrastructureError: iterate"]
       \/ LET medicine == UnmarshalMedicine(Head(call.iter))
          IN  IF medicine.err
              THEN call' = [call EXCEPT !.pc = "deferred", !.medicines = <<>>,
                                        !.err = "InfrastructureError: unmarshal"]
              ELSE call' = [call EXCEPT !.iter = Tail(@),
                                        !.medicines = Append(@, medicine.val)]
    /\ UNCHANGED <<state, history, txCount, result, addCalled, pending>>

\* lines 160-164: HasNext is false; the slice is sorted and returned
ListMedicines_Return ==
    /\ call.op = "ListMedicines" /\ call.pc = "loop" /\ call.iter = <<>>
    /\ call' = [call EXCEPT !.pc = "deferred", !.medicines = SortByName(@)]
    /\ UNCHANGED <<state, history, txCount, result, addCalled, pending>>

\* lines 169-173
ShowMedicineHistory_GetHistoryForKey(name) ==
    /\ call.pc = "done"
    /\ \/ call' = Frame("ShowMedicineHistory", name, "done", <<>>, 0, 0, <<>>, <<>>,
                        "InfrastructureError: get history for key")
       \/ call' = Frame("ShowMedicineHistory", name, "loop", GetHistoryForKey(name),
                        1, 0, <<>>, <<>>, "")
    /\ UNCHANGED <<state, history, txCount, result, addCalled, pending>>

\* ShowMedicineHistory that closes the iterator only after the loop, with no
\* defer: a return from inside the loop leaves it open
ShowMedicineHistory_Loop_NoDefer ==
    /\ call.op = "ShowMedicineHistory" /\ call.pc = "loop" /\ call.iter # <<>>
    /\ \/ call' = [call EXCEPT !.pc = "done", !.history = <<>>,
                               !.err = "InfrastructureError: iterate"]
       \/ LET queryResponse == Head(call.iter)
              txValue == UnmarshalMedicine(queryResponse.Value)
          IN  IF txValue.err
              THEN call' = [call EXCEPT !.pc = "done", !.history = <<>>,
                                        !.err = "InfrastructureError: unmarshal"]
              ELSE call' = [call EXCEPT
                               !.iter = Tail(@),
                               !.history = Append(@, [TxID |-> queryResponse.TxId,
                                                      Value |-> txValue.val,
                                                      Timestamp |-> queryResponse.Timestamp])]
    /\ UNCHANGED <<state, history, txCount, result, addCalled, pending>>

\* lines 177-196: one pass of the loop
ShowMedicineHistory_Loop ==
    /\ call.op = "ShowMedicineHistory" /\ call.pc = "loop" /\ call.iter # <<>>
    /\ \/ call' = [call EXCEPT !.pc = "deferred", !.history = <<>>,
                               !.err = "InfrastructureError: iterate"]
       \/ LET queryResponse == Head(call.iter)
              txValue == UnmarshalMedicine(queryResponse.Value)
          IN  IF txValue.err
              THEN call' = [call EXCEPT !.pc = "deferred", !.history = <<>>,
                                        !.err = "InfrastructureError: unmarshal"]
              ELSE call' = [call EXCEPT
                               !.iter = Tail(@),
                               !.history = Append(@, [TxID |-> queryResponse.TxId,
                                                      Value |-> txValue.val,
                                                      Timestamp |-> queryResponse.Timestamp])]
    /\ UNCHANGED <<state, history, txCount, result, addCalled, pending>>

\* line 198: HasNext is false; the slice is returned
ShowMedicineHistory_Return ==
    /\ call.op = "ShowMedicineHistory" /\ call.pc = "loop" /\ call.iter = <<>>
    /\ call' = [call EXCEPT !.pc = "deferred"]
    /\ UNCHANGED <<state, history, txCount, result, addCalled, pending>>

\* lines 140 and 173: the deferred resultsIterator.Close() runs when the
\* function returns, and the caller has the result
Close ==
    /\ call.pc = "deferred"
    /\ call' = [call EXCEPT !.pc = "done", !.iter = <<>>, !.closed = @ + 1]
    /\ result' = Returned(call.op, <<>>, call.name,
                          IF call.err = "" THEN "" ELSE "InfrastructureError",
                          call.medicines, call.history)
    /\ UNCHANGED <<state, history, txCount, addCalled, pending>>

NextIter ==
    \/ ListMedicines_GetStateByRange
    \/ ListMedicines_Loop
    \/ ListMedicines_Return
    \/ \E n \in Names : ShowMedicineHistory_GetHistoryForKey(n)
    \/ ShowMedicineHistory_Loop
    \/ ShowMedicineHistory_Return
    \/ Close

SpecIter == InitIter /\ [][NextIter]_vars

----------------------------------------------------------------------------

(* Proposals that overlap.  An operation is first simulated against the     *)
(* world state: its GetState calls go to the read set with the version of   *)
(* the key they saw, its PutState or DelState to the write set, and nothing *)
(* is written.  A proposal whose simulation returned no error is committed  *)
(* later, in any order with the others, and only if every key of its read   *)
(* set still has the version that was read; otherwise it is invalid and     *)
(* leaves the ledger as it is.  The version of a key changes with every     *)
(* committed write or delete of the key.                                    *)

\* Number of proposals simulated in a behaviour.
MaxProposals == 3

\* the version of key: the number of committed writes and deletes of it
Version(key) == Len(GetHistoryForKey(key))

\* a simulated proposal: the keys read with their versions, the key written
\* and its value (nil: a delete), the ledger height at simulation, and, once
\* the proposal is decided, its status and the height it was committed at
Proposal(op, caller, name, readKeys, writeKey, value) ==
    [op |-> op, caller |-> caller, name |-> name,
     reads |-> [k \in readKeys |-> Version(k)],
     writeKey |-> writeKey, value |-> value,
     height |-> txCount, status |-> "pending", committedAt |-> 0]

\* the simulation returned an error: the client has it and nothing is proposed
Rejected(op, caller, name, err) ==
    /\ result' = Returned(op, caller, name, err, <<>>, <<>>)
    /\ UNCHANGED pending

\* the simulation returned no error: the proposal awaits its commit
Proposed(p) ==
    /\ result' = Returned(p.op, p.caller, p.name, "", <<>>, <<>>)
    /\ pending' = pending \cup {p}

\* AddMedicine that tests for the record with a read the ledger does not
\* track, so that its read set is empty
Simulate_AddMedicine_UntrackedRead(caller, name, quantity, manufactureDate, expiryDate) ==
    LET existingMedicine == GetState(name)
        manufactureTime == ParseTime(manufactureDate)
        expiryTime == ParseTime(expiryDate)
        medicine == Medicine(name, quantity, manufactureTime.t, expiryTime.t, caller)
    IN  /\ Cardinality(pending) < MaxProposals
        /\ IF existingMedicine # Nil
           THEN Rejected("AddMedicine", caller, name, "AlreadyExists")
           ELSE IF manufactureTime.err
           THEN Rejected("AddMedicine", caller, name, "ValidationError: manufacture date")
           ELSE IF expiryTime.err
           THEN Rejected("AddMedicine", caller, name, "ValidationError: expiry date")
           ELSE Proposed(Proposal("AddMedicine", caller, name, {},
                                  name, MarshalMedicine(medicine)))
        /\ UNCHANGED <<state, history, txCount, addCalled, call>>

\* AddMedicine (lines 64-113) simulated
Simulate_AddMedicine(caller, name, quantity, manufactureDate, expiryDate) ==
    LET existingMedicine == GetState(name)
        manufactureTime == ParseTime(manufactureDate)
        expiryTime == ParseTime(expiryDate)
        owner == caller
        medicine == Medicine(name, quantity, manufactureTime.t, expiryTime.t, owner)
    IN  /\ Cardinality(pending) < MaxProposals
        /\ IF existingMedicine # Nil
           THEN Rejected("AddMedicine", caller, name, "AlreadyExists")
           ELSE IF manufactureTime.err
           THEN Rejected("AddMedicine", caller, name, "ValidationError: manufacture date")
           ELSE IF expiryTime.err
           THEN Rejected("AddMedicine", caller, name, "ValidationError: expiry date")
           ELSE Proposed(Proposal("AddMedicine", caller, name, {name},
                                  name, MarshalMedicine(medicine)))
        /\ UNCHANGED <<state, history, txCount, addCalled, call>>

\* DeleteMedicine (lines 115-132) simulated
Simulate_DeleteMedicine(caller, name) ==
    LET existingMedicine == GetState(name)
    IN  /\ Cardinality(pending) < MaxProposals
        /\ IF existingMedicine = Nil
           THEN Rejected("DeleteMedicine", <<>>, name, "NotFound")
           ELSE Proposed(Proposal("DeleteMedicine", <<>>, name, {name}, name, Nil))
        /\ UNCHANGED <<state, history, txCount, addCalled, call>>

\* RequestMedicine (lines 201-262) simulated
Simulate_RequestMedicine(caller, name, details) ==
    LET existingMedicine == GetState(name)
        requester == caller
        requestKey == Sprintf_request(requester, name)
        request == MedicineRequest(name, requester, details)
    IN  /\ Cardinality(pending) < MaxProposals
        /\ IF existingMedicine = Nil
           THEN Rejected("RequestMedicine", caller, name, "NotFound")
           ELSE IF requester \notin allowedOrgs
           THEN Rejected("RequestMedicine", caller, name, "Unauthorized")
           ELSE IF GetState(requestKey) # Nil
           THEN Rejected("RequestMedicine", caller, name, "AlreadyExists")
           ELSE Proposed(Proposal("RequestMedicine", caller, name, {name, requestKey},
                                  requestKey, MarshalRequest(request)))
        /\ UNCHANGED <<state, history, txCount, addCalled, call>>

\* every key the proposal read still has the version it read
Valid(p) == \A k \in DOMAIN p.reads : Version(k) = p.reads[k]

\* the host decides a pending proposal: valid, and its write is committed
\* (lines 107, 126, 256), or invalid, and the ledger stays as it is
Commit(p) ==
    /\ p \in pending /\ p.status = "pending"
    /\ IF Valid(p)
       THEN /\ IF p.value = Nil THEN DelState(p.writeKey)
                                ELSE PutState(p.writeKey, p.value)
            /\ pending' = (pending \ {p}) \cup
                              {[p EXCEPT !.status = "valid", !.committedAt = txCount + 1]}
       ELSE /\ pending' = (pending \ {p}) \cup {[p EXCEPT !.status = "invalid"]}
            /\ UNCHANGED <<state, history, txCount>>
    /\ UNCHANGED <<result, addCalled, call>>

NextMVCC ==
    \/ \E c \in Callers, n \in Names, q \in Quantities,
          md \in ManufactureDates, ed \in ExpiryDates : Simulate_AddMedicine(c, n, q, md, ed)
    \/ \E c \in Callers, n \in Names : Simulate_DeleteMedicine(c, n)
    \/ \E c \in Callers, n \in Names, d \in Details : Simulate_RequestMedicine(c, n, d)
    \/ \E p \in pending : Commit(p)

SpecMVCC == Init /\ [][NextMVCC]_vars

----------------------------------------------------------------------------

(* Properties. *)

\* the bytes are the JSON encoding of a Medicine
IsMedicineDoc(bytes) ==
    DOMAIN bytes = {"name", "quantity", "manufactureDate", "expiryDate", "owner"}

\* the bytes are the JSON encoding of a MedicineRequest
IsRequestDoc(bytes) == DOMAIN bytes = {"medicineName", "requester", "details"}

\* the names under which a Medicine record is stored
LiveMedicines == {k \in DOMAIN state : IsMedicineDoc(state[k])}

\* the keys under which a MedicineRequest record is stored
StoredRequests == {k \in DOMAIN state : IsRequestDoc(state[k])}

\* C1: AddMedicine called while a record is stored under its name fails with
\* AlreadyExists, whatever its dates; in particular so does an AddMedicine
\* that directly follows a successful AddMedicine of the same name, whoever
\* calls it.
C1_AddOnStoredKeyAlreadyExists ==
    [][(result'.op = "AddMedicine") =>
          /\ (result'.name \in DOMAIN state => result'.err = "AlreadyExists")
          /\ ((result.op = "AddMedicine" /\ result.err = ""
                  /\ result.name = result'.name)
                 => result'.err = "AlreadyExists")]_vars

\* an AddMedicine by another caller than the one whose record is stored under
\* the name has returned AlreadyExists
C1_Witness ==
    /\ result.op = "AddMedicine" /\ result.err = "AlreadyExists"
    /\ result.name \in LiveMedicines
    /\ state[result.name].owner # result.caller

\* C2: DeleteMedicine(n) for a name n that AddMedicine was never called with
\* returns NotFound and removes nothing from the world state.
C2_DeleteNeverAddedNotFound ==
    [][(result'.op = "DeleteMedicine" /\ result'.name \notin addCalled) =>
          (result'.err = "NotFound" /\ state' = state)]_vars

\* C3: ListMedicines returns exactly the live Medicine records: one entry per
\* name that holds a Medicine, and no entry for a MedicineRequest.
C3_ListIsLiveMedicines ==
    (result.op = "ListMedicines") =>
        /\ result.err = ""
        /\ Len(result.medicines) = Cardinality(LiveMedicines)
        /\ {result.medicines[i] : i \in 1..Len(result.medicines)}
              = {UnmarshalMedicine(state[n]).val : n \in LiveMedicines}

\* C4: the slice a successful ListMedicines returns is in ascending order of
\* Name.
C4_ListSortedByName ==
    (result.op = "ListMedicines" /\ result.err = "") =>
        \A i \in 1..(Len(result.medicines) - 1) :
            ~StrLess(result.medicines[i + 1].Name, result.medicines[i].Name)

\* ListMedicines has returned entries of different names
C4_Witness ==
    /\ result.op = "ListMedicines" /\ result.err = ""
    /\ Len(result.medicines) >= 2
    /\ StrLess(result.medicines[1].Name, result.medicines[Len(result.medicines)].Name)

\* an entry of a key's history that records an AddMedicine
IsAddEntry(e) == IsMedicineDoc(e.Value)

\* the name was added and then deleted: its history holds a Medicine value
\* and, after it, an entry without a value
AddedThenDeleted(name) ==
    LET h == GetHistoryForKey(name)
    IN  \E i, j \in 1..Len(h) : i < j /\ IsAddEntry(h[i]) /\ h[j].Value = Nil

\* C5: ShowMedicineHistory(n), called after a successful AddMedicine(n) and a
\* successful DeleteMedicine(n), succeeds and returns at least two entries:
\* one for each entry of the key's history, the Add's carrying the Medicine
\* that was added.
C5_HistoryAfterAddDelete ==
    (result.op = "ShowMedicineHistory" /\ AddedThenDeleted(result.name)) =>
        /\ result.err = ""
        /\ Len(result.history) >= 2
        /\ Len(result.history) = Len(GetHistoryForKey(result.name))
        /\ \E i \in 1..Len(result.history) :
              /\ IsAddEntry(GetHistoryForKey(result.name)[i])
              /\ MarshalMedicine(result.history[i].Value)
                    = GetHistoryForKey(result.name)[i].Value

\* C6: RequestMedicine by an identity that is neither ProducerMSP nor
\* SupplierMSP returns Unauthorized, whether or not the Medicine exists.
C6_OutsiderAlwaysUnauthorized ==
    (result.op = "RequestMedicine"
        /\ result.caller \notin {ProducerMSP, SupplierMSP}) =>
        result.err = "Unauthorized"

\* C6, amended: RequestMedicine by an identity that is neither ProducerMSP nor
\* SupplierMSP never succeeds and writes nothing: it returns Unauthorized when
\* a record is stored under the name and NotFound when none is.
C6_OutsiderRejected ==
    [][(result'.op = "RequestMedicine"
          /\ result'.caller \notin {ProducerMSP, SupplierMSP}) =>
          /\ result'.err = (IF result'.name \in DOMAIN state
                            THEN "Unauthorized" ELSE "NotFound")
          /\ state' = state /\ history' = history]_vars

\* RequestMedicine by ManufacturerMSP for a stored Medicine has returned
\* Unauthorized
C6_Witness ==
    /\ result.op = "RequestMedicine" /\ result.caller = ManufacturerMSP
    /\ result.name \in LiveMedicines
    /\ result.err = "Unauthorized"

\* C7: RequestMedicine checks existence, then authorization, then duplicate:
\* NotFound when no Medicine is stored under the name, whoever calls;
\* Unauthorized when the Medicine exists and the caller is outside the
\* allow-list; AlreadyExists only when the Medicine exists and the caller is
\* allowed.
C7_RequestCheckOrder ==
    (result.op = "RequestMedicine") =>
        /\ (result.name \notin LiveMedicines => result.err = "NotFound")
        /\ ((result.name \in LiveMedicines
               /\ result.caller \notin {ProducerMSP, SupplierMSP})
              => result.err = "Unauthorized")
        /\ (result.err = "AlreadyExists" =>
               /\ result.name \in LiveMedicines
               /\ result.caller \in {ProducerMSP, SupplierMSP})

\* the values RequestMedicine wrote for the pair, oldest first
RECURSIVE RequestsIn(_, _, _)
RequestsIn(h, requester, name) ==
    IF h = <<>> THEN <<>>
    ELSE IF /\ IsRequestDoc(Head(h).Value)
            /\ Head(h).Value.requester = requester
            /\ Head(h).Value.medicineName = name
         THEN <<Head(h).Value>> \o RequestsIn(Tail(h), requester, name)
         ELSE RequestsIn(Tail(h), requester, name)

RequestsWritten(requester, name) ==
    RequestsIn(GetHistoryForKey(Sprintf_request(requester, name)), requester, name)

\* C8: at most one request record is ever written per (requester, name)
\* pair: once RequestMedicine has written one, the key keeps holding it with
\* its first details and a later RequestMedicine of the pair returns
\* AlreadyExists; different pairs have different keys.
C8_OneRequestPerPair ==
    /\ \A c \in Callers, n \in Names :
          RequestsWritten(c, n) # <<>> =>
              /\ Len(RequestsWritten(c, n)) = 1
              /\ GetState(Sprintf_request(c, n)) = RequestsWritten(c, n)[1]
              /\ ((result.op = "RequestMedicine" /\ result.caller = c
                     /\ result.name = n /\ n \in LiveMedicines
                     /\ result.err # "")
                    => result.err = "AlreadyExists")
    /\ \A c1, c2 \in Callers, n1, n2 \in Names :
          Sprintf_request(c1, n1) = Sprintf_request(c2, n2) => (c1 = c2 /\ n1 = n2)

\* C9: Medicine records and MedicineRequest records never collide: AddMedicine
\* returns AlreadyExists only for a stored Medicine, RequestMedicine returns
\* AlreadyExists only for a stored request, and no key is written by both.
C9_NoKeyCollision ==
    /\ (result.op = "AddMedicine" /\ result.err = "AlreadyExists")
          => result.name \in LiveMedicines
    /\ (result.op = "RequestMedicine" /\ result.err = "AlreadyExists")
          => Sprintf_request(result.caller, result.name) \in StoredRequests
    /\ \A k \in DOMAIN history :
          ~(\E i, j \in 1..Len(history[k]) :
                IsMedicineDoc(history[k][i].Value) /\ IsRequestDoc(history[k][j].Value))

\* C10: a request record, once written, is never deleted, overwritten or
\* returned: its key keeps its value in every later state, ListMedicines
\* returns no entry for it and ShowMedicineHistory returns none of its
\* versions.
C10_RequestsWriteOnly ==
    [][/\ \A k \in StoredRequests : k \in DOMAIN state' /\ state'[k] = state[k]
       /\ (result'.op = "ListMedicines" /\ result'.err = "")
             => Len(result'.medicines) = Cardinality(LiveMedicines)
       /\ (result'.op = "ShowMedicineHistory" /\ result'.err = "")
             => \A i \in 1..Len(GetHistoryForKey(result'.name)) :
                   ~IsRequestDoc(GetHistoryForKey(result'.name)[i].Value)]_vars

\* C11: the owner of a Medicine record is the caller of the AddMedicine that
\* stored it, its name is the name it was added under, and while the record
\* is live no operation changes it: the only step that changes the value
\* under its key is a successful DeleteMedicine of that name, which removes it.
C11_OwnerSetAtCreationAndKept ==
    [][/\ (result'.op = "AddMedicine" /\ result'.err = "") =>
             /\ result'.name \in DOMAIN state'
             /\ IsMedicineDoc(state'[result'.name])
             /\ UnmarshalMedicine(state'[result'.name]).val.Owner = result'.caller
             /\ UnmarshalMedicine(state'[result'.name]).val.Name = result'.name
       /\ \A k \in LiveMedicines :
             \/ (k \in DOMAIN state' /\ state'[k] = state[k])
             \/ (result'.op = "DeleteMedicine" /\ result'.err = ""
                   /\ result'.name = k /\ k \notin DOMAIN state')]_vars

\* a RequestMedicine by another organization than the owner has succeeded for
\* a Medicine, and the Medicine is still stored with its owner
C11_Witness ==
    /\ result.op = "RequestMedicine" /\ result.err = ""
    /\ result.name \in LiveMedicines
    /\ UnmarshalMedicine(state[result.name]).val.Owner \notin {<<>>, result.caller}

\* "2023-01-01T00:00:00Z" and "2025-01-01T00:00:00Z": dates in the format
WellFormedDates ==
    { <<50, 48, 50, 51, 45, 48, 49, 45, 48, 49, 84, 48, 48, 58, 48, 48, 58, 48, 48, 90>>,
      <<50, 48, 50, 53, 45, 48, 49, 45, 48, 49, 84, 48, 48, 58, 48, 48, 58, 48, 48, 90>> }

\* the last write to the name was the DeleteMedicine of a Medicine
DeletedMedicine(name) ==
    LET h == GetHistoryForKey(name)
    IN  /\ Len(h) >= 2
        /\ h[Len(h)].Value = Nil
        /\ IsMedicineDoc(h[Len(h) - 1].Value)

\* C12: a name is Absent, Active, Absent, Active again: after AddMedicine(n)
\* and DeleteMedicine(n) have succeeded, an AddMedicine(n) with well-formed
\* dates by any caller succeeds and stores a record owned by that caller.
C12_AddAfterDeleteSucceeds ==
    [][(result'.op = "AddMedicine" /\ DeletedMedicine(result'.name)) =>
          \A q \in Quantities, md \in ManufactureDates, ed \in ExpiryDates :
              (/\ AddMedicine(result'.caller, result'.name, q, md, ed)
               /\ md \in WellFormedDates /\ ed \in WellFormedDates)
              => /\ result'.err = ""
                 /\ result'.name \in DOMAIN state'
                 /\ IsMedicineDoc(state'[result'.name])
                 /\ state'[result'.name].owner = result'.caller
                 /\ state'[result'.name].quantity = q]_vars

\* a name was added, deleted and added again by another caller
C12_Witness ==
    /\ result.op = "AddMedicine" /\ result.err = ""
    /\ LET h == GetHistoryForKey(result.name)
       IN  /\ Len(h) = 3
           /\ IsMedicineDoc(h[1].Value) /\ h[2].Value = Nil
           /\ h[3].Value = state[result.name]
           /\ h[1].Value.owner # h[3].Value.owner
           /\ h[3].Value.owner = result.caller

\* C13: ShowMedicineHistory(n) for a key that no operation ever wrote returns
\* an empty sequence and no error; it is never refused with NotFound because
\* the record is absent.
C13_HistoryOfUnwrittenKeyIsEmpty ==
    /\ (result.op = "ShowMedicineHistory" /\ result.name \notin DOMAIN history)
          => (result.err = "" /\ result.history = <<>>)
    /\ (result.op = "ShowMedicineHistory") => result.err # "NotFound"

\* ShowMedicineHistory has returned for a key never written, on a ledger that
\* holds other records
C13_Witness ==
    /\ result.op = "ShowMedicineHistory"
    /\ result.name \notin DOMAIN history
    /\ result.name \notin DOMAIN state
    /\ DOMAIN state # {}
    /\ result.err = "" /\ result.history = <<>>

\* "2023-13-01T00:00:00Z" (month 13) and "2025-01-01" (no time of day):
\* strings that are not RFC 3339 date-times
MalformedDates ==
    { <<50, 48, 50, 51, 45, 49, 51, 45, 48, 49, 84, 48, 48, 58, 48, 48, 58, 48, 48, 90>>,
      <<50, 48, 50, 53, 45, 48, 49, 45, 48, 49>> }

\* C14: AddMedicine for an absent name with a date string that does not parse
\* fails with a ValidationError that names the field, the manufacture date
\* being checked before the expiry date, and writes nothing to the world state
\* or the history.
C14_MalformedDateRejected ==
    [][(result'.op = "AddMedicine" /\ result'.name \notin DOMAIN state) =>
          \A q \in Quantities, md \in ManufactureDates, ed \in ExpiryDates :
              AddMedicine(result'.caller, result'.name, q, md, ed) =>
                  /\ md \in MalformedDates =>
                        /\ result'.err = "ValidationError: manufacture date"
                        /\ state' = state /\ history' = history
                  /\ (md \notin MalformedDates /\ ed \in MalformedDates) =>
                        /\ result'.err = "ValidationError: expiry date"
                        /\ state' = state /\ history' = history]_vars

\* AddMedicine for an absent name has returned the ValidationError of the
\* expiry date, on a ledger that holds a record
C14_Witness ==
    /\ result.op = "AddMedicine"
    /\ result.name \notin DOMAIN state
    /\ DOMAIN state # {}
    /\ result.err = "ValidationError: expiry date"

\* the entries of key k in the history map h
EntriesOf(h, k) == Lookup(h, k, <<>>)

\* in this step the history of key k gains exactly one entry and the history
\* of every other key stays as it is
AppendsOneEntry(k) ==
    /\ Len(EntriesOf(history', k)) = Len(EntriesOf(history, k)) + 1
    /\ \A j \in (DOMAIN history \cup DOMAIN history') \ {k} :
          EntriesOf(history', j) = EntriesOf(history, j)

\* C15: the history of every key is append-only: a successful AddMedicine(n)
\* appends exactly one value entry and a successful DeleteMedicine(n) exactly
\* one tombstone to the history of n, no step removes or rewrites an earlier
\* entry, and the last entry of a key's history is a value entry exactly when
\* the key is present in the world state.
C15_HistoryAppendOnly ==
    [][/\ \A k \in DOMAIN history :
             /\ Len(EntriesOf(history', k)) >= Len(history[k])
             /\ SubSeq(EntriesOf(history', k), 1, Len(history[k])) = history[k]
       /\ (result'.op = "AddMedicine" /\ result'.err = "") =>
             /\ AppendsOneEntry(result'.name)
             /\ history'[result'.name][Len(history'[result'.name])].Value # Nil
       /\ (result'.op = "DeleteMedicine" /\ result'.err = "") =>
             /\ AppendsOneEntry(result'.name)
             /\ history'[result'.name][Len(history'[result'.name])].Value = Nil
       /\ \A k \in DOMAIN history' \cup DOMAIN state' :
             (k \in DOMAIN state') <=>
                 (/\ EntriesOf(history', k) # <<>>
                  /\ history'[k][Len(history'[k])].Value # Nil)]_vars

\* a key holds a value entry, a tombstone and a value entry again, and is
\* present
C15_Witness ==
    \E k \in DOMAIN history :
        /\ Len(history[k]) = 3
        /\ history[k][1].Value # Nil /\ history[k][2].Value = Nil
        /\ history[k][3].Value # Nil
        /\ k \in DOMAIN state
        /\ result.op = "AddMedicine" /\ result.err = "" /\ result.name = k

\* the keys whose entry differs between the maps m1 and m2
ChangedKeys(m1, m2, default) ==
    {k \in DOMAIN m1 \cup DOMAIN m2 : Lookup(m1, k, default) # Lookup(m2, k, default)}

\* C20: an operation writes the ledger at most once and only after all its
\* checks: a call that returns an error leaves the world state and every
\* history unchanged, ListMedicines and ShowMedicineHistory never change them,
\* and any step changes at most one key and logs at most one entry.
C20_WritesOnlyAfterChecks ==
    [][/\ (result'.err # "" \/ result'.op \in {"ListMedicines", "ShowMedicineHistory"})
             => (state' = state /\ history' = history /\ txCount' = txCount)
       /\ txCount' \in {txCount, txCount + 1}
       /\ Cardinality(ChangedKeys(state, state', Nil)) <= 1
       /\ Cardinality(ChangedKeys(history, history', <<>>)) <= 1
       /\ \A k \in ChangedKeys(history, history', <<>>) :
             Len(EntriesOf(history', k)) = Len(EntriesOf(history, k)) + 1]_vars

\* RequestMedicine has returned AlreadyExists for a request that is stored, and
\* the ledger holds what it held
C20_Witness ==
    /\ result.op = "RequestMedicine" /\ result.err = "AlreadyExists"
    /\ Sprintf_request(result.caller, result.name) \in StoredRequests
    /\ txCount = 2

\* the errors AddMedicine and DeleteMedicine return, "" for none
AddDeleteErrors ==
    {"", "AlreadyExists", "NotFound", "Unauthorized",
     "ValidationError: manufacture date", "ValidationError: expiry date"}

\* the document AddMedicine stores for these arguments, without the owner
UnownedDoc(name, quantity, manufactureDate, expiryDate) ==
    [name |-> name, quantity |-> quantity, manufactureDate |-> manufactureDate,
     expiryDate |-> expiryDate, owner |-> <<>>]

\* the last operation committed a write, or none has run: every ledger the
\* model reaches is first reached in such a state
FreshLedger == result.err = "" /\ result.op \notin {"ListMedicines", "ShowMedicineHistory"}

\* C19: AddMedicine and DeleteMedicine do not depend on who calls: from the
\* same ledger and with the same arguments, whatever one caller gets (success
\* or which error) every other caller gets too; DeleteMedicine leaves the same
\* world state for both, and the world states AddMedicine leaves differ only
\* in the owner of the new record.
C19_NoIdentityRestriction ==
    FreshLedger =>
        \A n \in Names, c1 \in Callers, c2 \in Callers, e \in AddDeleteErrors :
            /\ ENABLED (DeleteMedicine(c1, n) /\ result'.err = e) =>
                   ENABLED (/\ DeleteMedicine(c2, n)
                            /\ result'.err = e
                            /\ state' = IF e = "" THEN Remove(state, n) ELSE state)
            /\ \A q \in Quantities, md \in ManufactureDates, ed \in ExpiryDates :
                   ENABLED (AddMedicine(c1, n, q, md, ed) /\ result'.err = e) =>
                       ENABLED (/\ AddMedicine(c2, n, q, md, ed)
                                /\ result'.err = e
                                /\ state' = IF e = ""
                                            THEN Store(state, n,
                                                       [UnownedDoc(n, q, md, ed)
                                                           EXCEPT !.owner = c2])
                                            ELSE state)

\* a record owned by ProducerMSP has been deleted, by a step that is the
\* DeleteMedicine of every caller
C19_Witness ==
    /\ result.op = "DeleteMedicine" /\ result.err = ""
    /\ LET h == GetHistoryForKey(result.name)
       IN  /\ Len(h) = 2 /\ IsMedicineDoc(h[1].Value)
           /\ h[1].Value.owner = ProducerMSP

\* some value of the sequence does not decode as a Medicine
Undecodable(values) ==
    \E i \in 1..Len(values) : UnmarshalMedicine(values[i]).err

\* the Values of the history entries of key, oldest first
HistoryValues(key) ==
    LET entries == GetHistoryForKey(key)
    IN  [i \in 1..Len(entries) |-> entries[i].Value]

\* C16: when a value met by the range scan of ListMedicines, or by the
\* history read of ShowMedicineHistory, does not decode as a Medicine, the
\* operation returns an error and no entries; a result without an error has
\* one entry for every value iterated, so no record was skipped and the
\* sequence is not partial.
C16_DecodeFailureAborts ==
    /\ result.op = "ListMedicines" =>
           /\ Undecodable(GetStateByRange) =>
                  (result.err # "" /\ result.medicines = <<>>)
           /\ result.err # "" => result.medicines = <<>>
           /\ result.err = "" => Len(result.medicines) = Len(GetStateByRange)
    /\ result.op = "ShowMedicineHistory" =>
           /\ Undecodable(HistoryValues(result.name)) =>
                  (result.err # "" /\ result.history = <<>>)
           /\ result.err # "" => result.history = <<>>
           /\ result.err = "" =>
                  Len(result.history) = Len(GetHistoryForKey(result.name))

\* ListMedicines has returned after its loop decoded one value and met a
\* second one that does not decode: the error, and no entries
C16_Witness ==
    /\ call.op = "ListMedicines" /\ call.pc = "done"
    /\ call.err = "InfrastructureError: unmarshal"
    /\ result.op = "ListMedicines" /\ result.err # "" /\ result.medicines = <<>>
    /\ Len(GetStateByRange) = 2
    /\ ~UnmarshalMedicine(GetStateByRange[1]).err
    /\ UnmarshalMedicine(GetStateByRange[2]).err

\* C17: a call of ListMedicines or ShowMedicineHistory never closes more
\* iterators than it acquired, and when it has returned (after the loop, on
\* an iteration error or on a decode error) it has closed every iterator it
\* acquired exactly once; a call whose ledger call failed acquired none.
C17_IteratorReleasedOnce ==
    /\ call.closed <= call.acquired
    /\ call.pc = "done" => call.closed = call.acquired
    /\ (call.pc = "done" /\ call.op # "none"
          /\ call.err \notin {"InfrastructureError: get state by range",
                              "InfrastructureError: get history for key"}) =>
           call.acquired = 1

\* ShowMedicineHistory has returned from inside its loop on a decode error,
\* with the one iterator it acquired closed
C17_Witness ==
    /\ call.op = "ShowMedicineHistory" /\ call.pc = "done"
    /\ call.err = "InfrastructureError: unmarshal"
    /\ call.acquired = 1 /\ call.closed = 1

\* p and q are two proposals of the same operation that write the same key
\* (two AddMedicine of one name, two RequestMedicine of one requester and
\* name), each simulated before the other was committed
Overlapping(p, q) ==
    /\ p # q
    /\ p.op = q.op /\ p.op \in {"AddMedicine", "RequestMedicine"}
    /\ p.writeKey = q.writeKey
    /\ p.status = "valid" => q.height < p.committedAt
    /\ q.status = "valid" => p.height < q.committedAt

\* the proposal that this step decides, as it is afterwards
DecidedNow == { d \in pending' : d \notin pending }

\* C18: of two overlapping AddMedicine proposals of one name, or two
\* overlapping RequestMedicine proposals of one requester and name, at most
\* one is committed.  The commit of the one leaves its value under the key
\* (for AddMedicine a Medicine owned by its caller) and adds exactly one
\* entry to the key's history; the decision of the other is invalid and
\* changes neither world state nor history.
C18_OneOfTwoOverlappingCommits ==
    [][/\ \A p \in pending', q \in pending' :
              Overlapping(p, q)' => ~(p.status = "valid" /\ q.status = "valid")
       /\ \A d \in DecidedNow, q \in pending' :
              (d.status # "pending" /\ Overlapping(d, q)') =>
                  IF d.status = "valid"
                  THEN /\ q.status # "valid"
                       /\ d.writeKey \in DOMAIN state'
                       /\ state'[d.writeKey] = d.value
                       /\ d.op = "AddMedicine" =>
                              UnmarshalMedicine(state'[d.writeKey]).val.Owner = d.caller
                       /\ Len(GetHistoryForKey(d.writeKey)') =
                              Len(GetHistoryForKey(d.writeKey)) + 1
                  ELSE /\ state' = state
                       /\ history' = history]_vars

\* two AddMedicine proposals of one name from different callers were
\* simulated against the same ledger, where the name was absent; one is
\* committed and the other one invalid
C18_Witness ==
    \E p \in pending, q \in pending :
        /\ p.op = "AddMedicine" /\ q.op = "AddMedicine"
        /\ p.name = q.name /\ p.caller # q.caller
        /\ p.height = q.height
        /\ p.reads = q.reads /\ p.reads[p.name] = 0
        /\ p.status = "valid" /\ q.status = "invalid"
        /\ state[p.name] = p.value

====
